---- MODULE Spec2Model ----
(***************************************************************************)
(* Model of gdbplus/python/heapcmd.py: the heap-reachability traversal     *)
(* heap_usage_value, the whole-process scan                                *)
(* PrintTopVariableCommand.calc_all_vars and the single-expression mode    *)
(* PrintTopVariableCommand.calc_input_vars that drive it.                  *)
(*                                                                         *)
(* The inspected process is a value graph `mem`: gdb.Value objects are     *)
(* nodes (a type kind, an address, a pointer value, children), and the     *)
(* allocator's bookkeeping is a table of heap blocks.  A work-list item    *)
(* (name, value) is modelled by its value; the name is a display label     *)
(* that no branch of the code reads.                                       *)
(***************************************************************************)
EXTENDS Integers, Sequences, FiniteSets, TLC

VARIABLES
    mem,                 \* the inspected process: value graph and heap blocks
    root,                \* heap_usage_value: the `value` argument
    blk0,                \* heap_usage_value: blk_addrs as passed in (history)
    values,              \* heap_usage_value: the work stack (deque)
    unique_value_addrs,  \* heap_usage_value: visited value addresses
    blk_addrs,           \* heap_usage_value: counted heap block addresses
    size,                \* heap_usage_value: running byte total
    count,               \* heap_usage_value: running block total
    pc,                  \* heap_usage_value: "loop", "returned" or "raised"
    trace,               \* history: one record per loop iteration
    proc,                \* the threads, frames, symbols and globals gdb reports
    selected_thread,     \* gdb.selected_thread()
    scan,                \* calc_all_vars: its local variables and position
    output,              \* the lines the command prints
    input                \* calc_input_vars: its local variables and position

callvars == <<root, blk0, values, unique_value_addrs, blk_addrs, size, count,
              pc, trace>>
scanvars == <<proc, selected_thread, scan, output>>
cmdvars == <<input>>
vars == <<mem, callvars, scanvars, cmdvars>>

-----------------------------------------------------------------------------
(* Bounds of the model and constants of the program.                       *)

\* number of heap blocks of the generic value graphs
NumBlocks == 2

\* threads of the scanned process, and frames of each thread
NumThreads == 2
NumFrames == 2

\* `target_type.sizeof >= 8` and `mtype.sizeof >= 8`
MinExpandSize == 8

\* PrintTopVariableCommand._show_count
_show_count == 20

\* Python's None (a missing value, a missing address, no heap block)
None == 0

-----------------------------------------------------------------------------
(* Values and heap blocks.                                                 *)

\* a pointer's content: its numeric value, the sizeof of its (dynamic)
\* target type and the value referenced_value() yields
PtrVal(pval, tsize, pointee) ==
    [pval |-> pval, tsize |-> tsize, pointee |-> pointee]

PtrNode(addr, c) ==
    [kind |-> "ptr", addr |-> addr, optimized_out |-> FALSE, pval |-> c.pval,
     tsize |-> c.tsize, pointee |-> c.pointee, kids |-> <<>>, fault |-> "none"]

AggNode(kind, addr, kids) ==
    [kind |-> kind, addr |-> addr, optimized_out |-> FALSE, pval |-> 0,
     tsize |-> 0, pointee |-> None, kids |-> kids, fault |-> "none"]

PrimNode(addr) == AggNode("prim", addr, <<>>)

\* a gdb.Field with the value it yields: m.type.sizeof, m.type.code,
\* m.is_base_class, hasattr(m, "type"), `m.name and hasattr(value, m.name)`
Field(node, msize, mcode) ==
    [node |-> node, msize |-> msize, mcode |-> mcode, is_base_class |-> FALSE,
     has_type |-> TRUE, has_name |-> TRUE]

Block(address, bsize, inuse) ==
    [address |-> address, size |-> bsize, inuse |-> inuse]

\* gdb.heap_block(addr): the index of the block that contains addr, or None
heap_block(m, addr) ==
    IF \E b \in DOMAIN m.blk :
           m.blk[b].address <= addr /\ addr < m.blk[b].address + m.blk[b].size
    THEN CHOOSE b \in DOMAIN m.blk :
           m.blk[b].address <= addr /\ addr < m.blk[b].address + m.blk[b].size
    ELSE None

-----------------------------------------------------------------------------
(* One iteration of the work-list loop of heap_usage_value.                *)

\* values.pop(): the position of the item taken
PopIndex(vals) == Len(vals)

\* Remaining for a loop that reads values[-1] and leaves it in the deque
Remaining_Peek(vals, k) == vals

\* the deque after values.pop() took position k
Remaining(vals, k) ==
    [i \in 1..(Len(vals) - 1) |-> IF i < k THEN vals[i] ELSE vals[i + 1]]

\* NewBlock without the test against blk_addrs
NewBlock_NoDedup(m, b, blks) ==
    b # None /\ m.blk[b].inuse

\* `blk and blk.inuse and (blk.address not in blk_addrs)`
NewBlock(m, b, blks) ==
    b # None /\ m.blk[b].inuse /\ m.blk[b].address \notin blks

\* ExpandTarget without the size test
ExpandTarget_Always(tsize) == TRUE

\* `target_type.sizeof >= 8`
ExpandTarget(tsize) == tsize >= MinExpandSize

\* the kinds of field the struct branch continues into
ExpandKinds == {"ptr", "ref", "array", "struct", "union", "typedef"}

\* `mtype.sizeof >= 8 and (mtype.code == ... )`
ExpandField(f) == f.msize >= MinExpandSize /\ f.mcode \in ExpandKinds

\* the outcome of an iteration that does nothing
NoVisit(item, how) ==
    [node |-> item, ev |-> how, raised |-> FALSE, hit |-> None,
     counted |-> FALSE, push |-> <<>>, undo |-> FALSE]

\* the pointer branch
VisitPtr(m, n, blks) ==
    LET nd == m.node[n]
        b == heap_block(m, nd.pval)
        fresh == NewBlock(m, b, blks)
        follow == fresh /\ ExpandTarget(nd.tsize)
    IN  IF nd.fault = "heap_block"
        THEN [NoVisit(n, "ptr") EXCEPT !.raised = TRUE]
        ELSE [node |-> n, ev |-> "ptr",
              raised |-> follow /\ nd.fault = "referenced_value",
              hit |-> b, counted |-> fresh,
              push |-> IF follow /\ nd.fault # "referenced_value"
                       THEN <<nd.pointee>> ELSE <<>>,
              undo |-> FALSE]

\* the array branch: every element is pushed
VisitArray(m, n, parent_addr) ==
    LET nd == m.node[n]
    IN  IF nd.fault = "getitem" /\ nd.kids # <<>>
        THEN [NoVisit(n, "array") EXCEPT !.raised = TRUE]
        ELSE [node |-> n, ev |-> "array", raised |-> FALSE, hit |-> None,
              counted |-> FALSE,
              push |-> [i \in 1..Len(nd.kids) |-> nd.kids[i].node],
              undo |-> parent_addr # None
                       /\ \E i \in 1..Len(nd.kids) :
                              m.node[nd.kids[i].node].addr = parent_addr]

\* the value of field f: value.cast(m.type), value[m.name] or None
MemVal(f) ==
    IF f.is_base_class \/ f.has_name THEN f.node ELSE None

\* a field the struct branch pushes
PushedField(m, f) ==
    /\ f.has_type
    /\ MemVal(f) # None
    /\ m.node[MemVal(f)].addr # None
    /\ ExpandField(f)

\* the struct branch
VisitStruct(m, n, parent_addr) ==
    LET nd == m.node[n]
        ok(f) == PushedField(m, f)
        kept == SelectSeq(nd.kids, ok)
    IN  IF /\ nd.fault = "getitem"
           /\ \E i \in 1..Len(nd.kids) :
                  /\ nd.kids[i].has_type
                  /\ ~nd.kids[i].is_base_class
                  /\ nd.kids[i].has_name
        THEN [NoVisit(n, "struct") EXCEPT !.raised = TRUE]
        ELSE [node |-> n, ev |-> "struct", raised |-> FALSE, hit |-> None,
              counted |-> FALSE,
              push |-> [i \in 1..Len(kept) |-> kept[i].node],
              undo |-> parent_addr # None
                       /\ \E i \in 1..Len(kept) :
                              m.node[kept[i].node].addr = parent_addr]

\* what the loop body does with the item at position k of the work list
VisitAt(m, st, k) ==
    LET item == st.values[k]
    IN  IF item = None THEN NoVisit(item, "skip_none")
        ELSE IF m.node[item].optimized_out THEN NoVisit(item, "skip_none")
        ELSE
        LET nd == m.node[item]
            parent_addr == nd.addr
        IN  IF parent_addr # None /\ parent_addr \in st.unique_value_addrs
            THEN NoVisit(item, "skip_seen")
            ELSE CASE nd.kind = "ptr" -> VisitPtr(m, item, st.blk_addrs)
                   [] nd.kind = "array" -> VisitArray(m, item, parent_addr)
                   [] nd.kind = "struct" -> VisitStruct(m, item, parent_addr)
                   [] OTHER -> NoVisit(item, "other")

\* the loop state after an iteration that took the item at position k and
\* did v
Apply(m, st, k, v) ==
    LET rest == Remaining(st.values, k)
        addr == IF v.node = None THEN None ELSE m.node[v.node].addr
        marked == IF v.ev \in {"skip_none", "skip_seen"} \/ addr = None
                  THEN st.unique_value_addrs
                  ELSE st.unique_value_addrs \cup {addr}
        b == v.hit
    IN  [values |-> rest \o v.push,
         unique_value_addrs |-> IF v.undo THEN marked \ {addr} ELSE marked,
         blk_addrs |-> IF v.counted
                       THEN st.blk_addrs \cup {m.blk[b].address}
                       ELSE st.blk_addrs,
         size |-> IF v.counted THEN st.size + m.blk[b].size ELSE st.size,
         count |-> IF v.counted THEN st.count + 1 ELSE st.count,
         pc |-> IF v.raised THEN "raised" ELSE "loop"]

\* the loop state after the iteration that takes the item at position k
HStepAt(m, st, k) == Apply(m, st, k, VisitAt(m, st, k))

\* the loop body as the code runs it: `(name, value) = values.pop()`
Visit(m, st) == VisitAt(m, st, PopIndex(st.values))

HStep(m, st) == HStepAt(m, st, PopIndex(st.values))

\* the state of a call at its first loop test
Enter(value, blks) ==
    [values |-> <<value>>, unique_value_addrs |-> {}, blk_addrs |-> blks,
     size |-> 0, count |-> 0, pc |-> "loop"]

\* `while values:` run to its end
RECURSIVE Loop(_, _)
Loop(m, st) ==
    IF st.pc # "loop" \/ st.values = <<>> THEN st ELSE Loop(m, HStep(m, st))

\* what a call that ended in loop state st hands back
Outcome(st) ==
    [size |-> st.size, count |-> st.count, blk_addrs |-> st.blk_addrs,
     raised |-> st.pc = "raised"]

\* a whole call: the totals, the updated block set, and whether it raised
heap_usage_value(m, value, blks) == Outcome(Loop(m, Enter(value, blks)))

-----------------------------------------------------------------------------
(* The value graphs the traversal is checked on.                           *)
(*                                                                         *)
(* Generic graphs: a root variable R at address 8 (a pointer, or a struct, *)
(* array or union of two pointers RS1, RS2), a global struct G at 40 that  *)
(* holds a pointer GS, and NumBlocks heap blocks; block i starts at        *)
(* Base(i) and holds struct H(i) = { T *HS(i); int HI(i)[1]; }.            *)

Base(i) == 100 * i
H(i) == 2 + 4 * i
HS(i) == 3 + 4 * i
HI(i) == 4 + 4 * i
HE(i) == 5 + 4 * i

Null == PtrVal(0, 16, None)
Dangling == PtrVal(56, 16, None)
ToG == PtrVal(40, 16, 4)
Big(i) == PtrVal(Base(i), 16, H(i))
Small(i) == PtrVal(Base(i) + 8, 4, HE(i))

Blocks == 1..NumBlocks
NextBlock(i) == (i % NumBlocks) + 1

RootKinds == {"ptr", "struct", "array", "union"}
Slot1 == {Null, Dangling, ToG} \cup {Big(i) : i \in Blocks}
             \cup {Small(i) : i \in Blocks}
Slot2 == {Null, Big(1), Small(1), Big(NumBlocks)}
HeapSlot(i) == IF i = 1 THEN {Null, Big(1), Big(NextBlock(1))}
               ELSE {Null, Big(1)}
NoFault == <<None, "none">>
Faults == {<<1, "getitem">>, <<3, "heap_block">>, <<2, "referenced_value">>,
           <<H(1), "getitem">>}

\* the values held in heap block (n - 2) \div 4
HeapNode(n, hs) ==
    LET i == (n - 2) \div 4
    IN  CASE n = H(i) -> AggNode("struct", Base(i),
                            <<Field(HS(i), 8, "ptr"), Field(HI(i), 4, "array")>>)
          [] n = HS(i) -> PtrNode(Base(i), hs[i])
          [] n = HI(i) -> AggNode("array", Base(i) + 8, <<Field(HE(i), 4, "int")>>)
          [] OTHER -> PrimNode(Base(i) + 8)

GenericNode(n, rk, c1, c2, hs) ==
    CASE n = 1 -> IF rk = "ptr" THEN PtrNode(8, c1)
                  ELSE AggNode(rk, 8, <<Field(2, 8, "ptr"), Field(3, 8, "ptr")>>)
      [] n = 2 -> PtrNode(8, c1)
      [] n = 3 -> PtrNode(IF rk = "union" THEN 8 ELSE 16, c2)
      [] n = 4 -> AggNode("struct", 40, <<Field(5, 8, "ptr")>>)
      [] n = 5 -> PtrNode(40, Big(NumBlocks))
      [] OTHER -> HeapNode(n, hs)

WithFault(nodes, flt) ==
    [n \in DOMAIN nodes |->
        IF n = flt[1] THEN [nodes[n] EXCEPT !.fault = flt[2]] ELSE nodes[n]]

GenericMem(rk, c1, c2, hs, free, flt) ==
    [node |-> WithFault([n \in 1..(5 + 4 * NumBlocks) |->
                            GenericNode(n, rk, c1, c2, hs)], flt),
     blk |-> [i \in Blocks |-> Block(Base(i), 16 * i, i # free)]]

GenericShapes ==
    {<<"ptr", c1, Null>> : c1 \in Slot1}
    \cup {<<rk, c1, c2>> : rk \in {"struct", "array"}, c1 \in Slot1, c2 \in Slot2}
    \cup {<<"union", Big(1), c2>> : c2 \in Slot2}

HeapShapes == {hs \in [Blocks -> Slot1] : \A i \in Blocks : hs[i] \in HeapSlot(i)}

GenericInputs ==
    {[mem |-> GenericMem(s[1], s[2], s[3], hs, e[1], e[3]), root |-> 1,
      blk0 |-> e[2]] :
        s \in GenericShapes, hs \in HeapShapes,
        e \in ({None, NumBlocks} \X {{}, {Base(1)}} \X {NoFault})
               \cup ({None} \X {{}} \X Faults)}

(* A struct with an inline array and a cursor into it, held in heap block  *)
(* 1:  S = { X *items[2]; X **cur; }  at 100, reached through the pointer  *)
(* variable P at 8 or evaluated directly (the expression *P); items[0] and *)
(* items[1] point to blocks 2 and 3.                                       *)

InlineNode(n, it0, it1, cur) ==
    CASE n = 1 -> PtrNode(8, PtrVal(100, 24, 2))
      [] n = 2 -> AggNode("struct", 100,
                          <<Field(3, 16, "array"), Field(6, 8, "ptr")>>)
      [] n = 3 -> AggNode("array", 100, <<Field(4, 8, "ptr"), Field(5, 8, "ptr")>>)
      [] n = 4 -> PtrNode(100, it0)
      [] n = 5 -> PtrNode(108, it1)
      [] n = 6 -> PtrNode(116, cur)
      [] n = 7 -> AggNode("struct", 200, <<Field(9, 8, "int")>>)
      [] n = 8 -> AggNode("struct", 300, <<Field(10, 8, "int")>>)
      [] n = 9 -> PrimNode(200)
      [] OTHER -> PrimNode(300)

InlineMem(it0, it1, cur) ==
    [node |-> [n \in 1..10 |-> InlineNode(n, it0, it1, cur)],
     blk |-> <<Block(100, 24, TRUE), Block(200, 16, TRUE), Block(300, 40, TRUE)>>]

InlineInputs ==
    {[mem |-> InlineMem(it0, it1, cur), root |-> r, blk0 |-> {}] :
        it0 \in {Null, PtrVal(200, 16, 7)},
        it1 \in {Null, PtrVal(300, 40, 8)},
        cur \in {Null, PtrVal(100, 8, 4), PtrVal(108, 8, 5), PtrVal(100, 24, 2)},
        r \in {1, 2}}

TraverseInputs == GenericInputs \cup InlineInputs

-----------------------------------------------------------------------------
(* heap_usage_value as a state machine: one action per loop iteration.     *)

\* no process is being scanned
NoProc == [threads |-> <<>>, orig |-> None, gvs |-> <<>>, fault |-> <<"none", 0, 0>>]

\* calc_all_vars is not running
NoScan == [pc |-> "idle"]

\* calc_input_vars is not running
NoInput == [pc |-> "idle"]

LoopState ==
    [values |-> values, unique_value_addrs |-> unique_value_addrs,
     blk_addrs |-> blk_addrs, size |-> size, count |-> count, pc |-> pc]

\* the locals of the call take the values of loop state st
Becomes(st) ==
    /\ values' = st.values
    /\ unique_value_addrs' = st.unique_value_addrs
    /\ blk_addrs' = st.blk_addrs
    /\ size' = st.size
    /\ count' = st.count
    /\ pc' = st.pc

Init ==
    \E inp \in TraverseInputs :
        /\ mem = inp.mem
        /\ root = inp.root
        /\ blk0 = inp.blk0
        /\ values = <<inp.root>>
        /\ unique_value_addrs = {}
        /\ blk_addrs = inp.blk0
        /\ size = 0
        /\ count = 0
        /\ pc = "loop"
        /\ trace = <<>>
        /\ proc = NoProc
        /\ selected_thread = None
        /\ scan = NoScan
        /\ output = <<>>
        /\ input = NoInput

\* `while values:` holds: pop an item and process it
Iterate ==
    /\ pc = "loop"
    /\ values # <<>>
    /\ Becomes(HStep(mem, LoopState))
    /\ trace' = Append(trace, Visit(mem, LoopState))
    /\ UNCHANGED <<mem, root, blk0, scanvars, cmdvars>>

\* `while values:` fails: `return size, count`
Return ==
    /\ pc = "loop"
    /\ values = <<>>
    /\ pc' = "returned"
    /\ UNCHANGED <<mem, root, blk0, values, unique_value_addrs, blk_addrs,
                   size, count, trace, scanvars, cmdvars>>

Next == Iterate \/ Return

Spec == Init /\ [][Next]_vars

-----------------------------------------------------------------------------
(* The processes the whole-process scan is checked on.                     *)
(*                                                                         *)
(* Variables: locals a (at 8) and, in an outer block, a second a (at 48);  *)
(* the function statics s = { T *sa; T *sb; } (at 16) and t (at 32), which *)
(* gdb reports both as frame symbols and as global/static symbols; the     *)
(* global g (at 40); and r, held in a register (no address).               *)

VarA == 1
VarA2 == 2
VarS == 3
VarSa == 4
VarSb == 5
VarT == 6 + 4 * NumBlocks
VarG == 7 + 4 * NumBlocks
VarR == 8 + 4 * NumBlocks

ScanNode(n, cA, cSa, cT, cG) ==
    CASE n = VarA -> PtrNode(8, cA)
      [] n = VarA2 -> PtrNode(48, Big(NumBlocks))
      [] n = VarS -> AggNode("struct", 16, <<Field(VarSa, 8, "ptr"),
                                             Field(VarSb, 8, "ptr")>>)
      [] n = VarSa -> PtrNode(16, cSa)
      [] n = VarSb -> PtrNode(24, Big(NextBlock(1)))
      [] n = VarT -> PtrNode(32, cT)
      [] n = VarG -> PtrNode(40, cG)
      [] n = VarR -> PtrNode(None, Small(NumBlocks))
      [] OTHER -> HeapNode(n, [i \in Blocks |-> Null])

ScanMem(cA, cSa, cT, cG, flt) ==
    [node |-> WithFault([n \in 1..(8 + 4 * NumBlocks) |->
                            ScanNode(n, cA, cSa, cT, cG)], flt),
     blk |-> [i \in Blocks |-> Block(Base(i), 16 * i, TRUE)]]

\* a gdb.Symbol of a frame block with the value symbol2value gives
Sym(name, is_variable, typed, node) ==
    [name |-> name, is_variable |-> is_variable, typed |-> typed, node |-> node]

\* a gdb.Block
LexBlock(is_global, symbols) == [is_global |-> is_global, symbols |-> symbols]

\* the chain frame.block(), .superblock, ... of frame f of thread t
FrameBlocks(t, f) ==
    IF t = 1 /\ f = 1
    THEN <<LexBlock(FALSE, <<Sym("a", TRUE, TRUE, VarA), Sym("t", TRUE, TRUE, VarT),
                             Sym("s", TRUE, TRUE, VarS), Sym("f", FALSE, TRUE, VarA2),
                             Sym("u", TRUE, FALSE, VarA2)>>),
           LexBlock(FALSE, <<Sym("a", TRUE, TRUE, VarA2)>>),
           LexBlock(TRUE, <<Sym("g", TRUE, TRUE, VarG)>>)>>
    ELSE <<LexBlock(FALSE, <<Sym("s", TRUE, TRUE, VarS), Sym("o", TRUE, TRUE, None),
                             Sym("r", TRUE, TRUE, VarR)>>),
           LexBlock(TRUE, <<Sym("g", TRUE, TRUE, VarG)>>)>>

Threads ==
    [t \in 1..NumThreads |->
        [frames |-> [f \in 1..NumFrames |-> [blocks |-> FrameBlocks(t, f)]]]]

\* an entry of get_gvs(): symbol.name, symbol.symtab.filename, whether
\* get_typename finds a name, and the value
Gv(name, file, node) == [name |-> name, file |-> file, typed |-> TRUE, node |-> node]

GvS == Gv("s", 2, VarS)
GvT == Gv("t", 2, VarT)
GvG == Gv("g", 1, VarG)

GvOrders == {<<GvS, GvT, GvG>>, <<GvT, GvS, GvG>>, <<GvG, GvS, GvT>>}

NoScanFault == <<"none", 0, 0>>
ScanFaults == {<<"switch", NumThreads, 0>>, <<"newest_frame", 1, 0>>,
               <<"older", 1, 1>>, <<"select", 1, 1>>}
MemFaults == {<<H(NextBlock(1)), "getitem">>, <<VarG, "heap_block">>}

ScanInputs ==
    {[mem |-> ScanMem(cA, cSa, cT, cG, e[1]),
      proc |-> [threads |-> Threads, orig |-> o, gvs |-> gvs, fault |-> e[2]]] :
        cA \in {Null, Big(1), Small(1)}, cSa \in {Null, Big(1)},
        cT \in {Null, Big(NumBlocks)}, cG \in {Big(1), Big(NumBlocks)},
        o \in {1, NumThreads}, gvs \in GvOrders,
        e \in ({NoFault} \X ({NoScanFault} \cup ScanFaults))
               \cup (MemFaults \X {NoScanFault})}

-----------------------------------------------------------------------------
(* PrintTopVariableCommand.calc_all_vars.                                  *)

\* sorted(): the pairs <<key, item>> in ascending key order, equal keys in
\* their original order
RECURSIVE StableSort(_)
StableSort(ps) ==
    IF ps = <<>> THEN <<>>
    ELSE LET init == StableSort(SubSeq(ps, 1, Len(ps) - 1))
             x == ps[Len(ps)]
             k == Cardinality({i \in DOMAIN init : init[i][1] <= x[1]})
         IN  SubSeq(init, 1, k) \o <<x>> \o SubSeq(init, k + 1, Len(init))

Items(ps) == [i \in DOMAIN ps |-> ps[i][2]]

\* the symbols `for symbol in block` meets while the frame's block chain is
\* walked up to the first global or static block
RECURSIVE FrameSymbols(_)
FrameSymbols(blocks) ==
    IF blocks = <<>> THEN <<>>
    ELSE IF blocks[1].is_global THEN <<>>
    ELSE blocks[1].symbols \o FrameSymbols(Tail(blocks))

\* `if sz and cnt:` append the result and add to the totals
Bill(sc, id) ==
    IF sc.sz # 0 /\ sc.cnt # 0
    THEN [sc EXCEPT !.all_results = Append(@, [id |-> id, size |-> sc.sz,
                                               count |-> sc.cnt]),
                    !.total_bytes = @ + sc.sz,
                    !.total_count = @ + sc.cnt]
    ELSE sc

\* lines 394-404: the symbol's value v at addr was not skipped, and the
\* call heap_usage_value(symbol.name, v, blk_addrs) ended as r
Traversed(w, symbol, t, v, addr, r) ==
    LET sc == [w.sc EXCEPT
                 !.unique_value_addrs = IF addr # None THEN @ \cup {addr} ELSE @,
                 !.blk_addrs = r.blk_addrs,
                 !.calls = Append(@, v),
                 !.blks_before = Append(@, w.sc.blk_addrs)]
    IN  IF r.raised
        THEN [w EXCEPT !.sc = sc, !.raised = TRUE]
        ELSE [w EXCEPT !.sc =
                Bill([sc EXCEPT !.sz = r.size, !.cnt = r.count, !.assigned = TRUE],
                     <<"thread", t, w.sc.i, symbol.name>>)]

\* symbol_names.add(symbol.name)
Named(w, symbol) == [w EXCEPT !.symbol_names = @ \cup {symbol.name}]

\* the address of value v
AddressOf(m, v) == IF v = None THEN None ELSE m.node[v].addr

\* the body of `for symbol in block` for one symbol; w is the scan's
\* locals, the frame's symbol_names and whether an exception is in flight
StackSymbol(m, w, symbol, t) ==
    IF ~symbol.is_variable \/ symbol.name \in w.symbol_names THEN w
    ELSE IF ~symbol.typed \/ symbol.node = None THEN Named(w, symbol)
    ELSE IF /\ AddressOf(m, symbol.node) # None
            /\ AddressOf(m, symbol.node) \in w.sc.unique_value_addrs
    THEN Named(w, symbol)
    ELSE Traversed(Named(w, symbol), symbol, t, symbol.node,
                   AddressOf(m, symbol.node),
                   heap_usage_value(m, symbol.node, w.sc.blk_addrs))

\* the symbols of one frame in turn, until one raises
RECURSIVE StackSymbols(_, _, _, _)
StackSymbols(m, w, symbols, t) ==
    IF symbols = <<>> \/ w.raised THEN w
    ELSE StackSymbols(m, StackSymbol(m, w, symbols[1], t), Tail(symbols), t)

\* the `try:` body of the frame loop
FrameBody(m, sc, frame, flt, t, f) ==
    IF flt = <<"select", t, f>> THEN sc
    ELSE StackSymbols(m, [sc |-> sc, symbol_names |-> {}, raised |-> FALSE],
                      FrameSymbols(frame.blocks), t).sc

\* the loop that drops the globals whose address is known already:
\* `for (symbol, v) in gvs:` with `gvs.pop(index)` inside; k is the list
\* iterator's position
RECURSIVE DropKnown(_, _, _, _, _)
DropKnown(m, gvs, addrs, k, index) ==
    IF k > Len(gvs) THEN [gvs |-> gvs, unique_value_addrs |-> addrs]
    ELSE LET addr == m.node[gvs[k].node].addr
         IN  IF addr \notin addrs
             THEN DropKnown(m, gvs, addrs \cup {addr}, k + 1, index + 1)
             ELSE DropKnown(m, Remaining(gvs, index), addrs, k + 1, index + 1)

\* the locals of calc_all_vars before its first loop
ScanStart(orig) ==
    [pc |-> "threads", unique_value_addrs |-> {}, blk_addrs |-> {},
     gvs |-> <<>>, sorted_gvs |-> <<>>, all_results |-> <<>>,
     total_bytes |-> 0, total_count |-> 0, orig_thread |-> orig,
     thread |-> 0, frame |-> None, i |-> 0, g |-> 0,
     sz |-> 0, cnt |-> 0, assigned |-> FALSE,
     calls |-> <<>>, blks_before |-> <<>>, stack_addrs |-> {}]

InitScan ==
    \E inp \in ScanInputs :
        /\ mem = inp.mem
        /\ proc = inp.proc
        /\ selected_thread = inp.proc.orig
        /\ scan = ScanStart(inp.proc.orig)
        /\ output = <<>>
        /\ input = NoInput
        /\ root = None
        /\ blk0 = {}
        /\ values = <<>>
        /\ unique_value_addrs = {}
        /\ blk_addrs = {}
        /\ size = 0
        /\ count = 0
        /\ pc = "idle"
        /\ trace = <<>>

\* `for thread in ...threads():` takes the next thread: thread.switch(),
\* gdb.newest_frame()
SwitchThread ==
    /\ scan.pc = "threads"
    /\ scan.thread < Len(proc.threads)
    /\ LET t == scan.thread + 1
       IN  IF proc.fault = <<"switch", t, 0>>
           THEN /\ scan' = [scan EXCEPT !.pc = "aborted", !.thread = t]
                /\ UNCHANGED selected_thread
           ELSE /\ selected_thread' = t
                /\ scan' = IF proc.fault = <<"newest_frame", t, 0>>
                           THEN [scan EXCEPT !.pc = "aborted", !.thread = t]
                           ELSE [scan EXCEPT
                                   !.thread = t,
                                   !.frame = IF proc.threads[t].frames = <<>>
                                             THEN None ELSE 1,
                                   !.i = 0,
                                   !.pc = IF proc.threads[t].frames = <<>>
                                          THEN "threads" ELSE "frames"]
    /\ UNCHANGED <<mem, callvars, cmdvars, proc, output>>

\* the lines the summary prints: `for var in sorted_results:` until
\* `i > self._show_count`, then the totals
Printed(sorted_results, total_bytes, total_count) ==
    SubSeq(sorted_results, 1,
           IF Len(sorted_results) > _show_count
           THEN _show_count + 1 ELSE Len(sorted_results))
    \o <<[id |-> <<"total", 0, 0, "">>, size |-> total_bytes,
          count |-> total_count]>>

\* the locals once the loop over gvs ended as d: `sorted_gvs = sorted(gvs,
\* key=lambda gv: gv[0].symtab.filename)`
Deduped(sc, d) ==
    [sc EXCEPT !.pc = "globals",
               !.gvs = d.gvs,
               !.unique_value_addrs = d.unique_value_addrs,
               !.sorted_gvs = Items(StableSort([i \in DOMAIN d.gvs |->
                                                  <<d.gvs[i].file, d.gvs[i]>>])),
               !.g = 1]

\* `frame = frame.older()` and `i += 1` after the try block left locals sc
Older(sc, frames, flt) ==
    IF flt = <<"older", sc.thread, sc.frame>>
    THEN [sc EXCEPT !.pc = "aborted"]
    ELSE IF sc.frame < Len(frames)
    THEN [sc EXCEPT !.frame = @ + 1, !.i = @ + 1]
    ELSE [sc EXCEPT !.frame = None, !.i = @ + 1, !.pc = "threads"]

\* lines 445-455 for global gv, whose call heap_usage_value ended as r
GlobalTraversed(sc, gv, r) ==
    LET called == [sc EXCEPT !.blk_addrs = r.blk_addrs,
                             !.calls = Append(@, gv.node),
                             !.blks_before = Append(@, sc.blk_addrs),
                             !.g = @ + 1]
    IN  IF r.raised
        THEN IF sc.assigned
             THEN Bill(called, <<"global", gv.file, 0, gv.name>>)
             ELSE [called EXCEPT !.pc = "aborted"]
        ELSE Bill([called EXCEPT !.sz = r.size, !.cnt = r.count,
                                 !.assigned = TRUE],
                  <<"global", gv.file, 0, gv.name>>)

\* one iteration of `while frame:`: the try block, then frame.older()
WalkFrame ==
    /\ scan.pc = "frames"
    /\ scan' = Older(FrameBody(mem, scan,
                               proc.threads[scan.thread].frames[scan.frame],
                               proc.fault, scan.thread, scan.frame),
                     proc.threads[scan.thread].frames, proc.fault)
    /\ UNCHANGED <<mem, callvars, cmdvars, proc, selected_thread, output>>

\* the thread loop is over: `orig_thread.switch()`
RestoreThread ==
    /\ scan.pc = "threads"
    /\ scan.thread = Len(proc.threads)
    /\ selected_thread' = scan.orig_thread
    /\ scan' = [scan EXCEPT !.pc = "dedup",
                            !.stack_addrs = scan.unique_value_addrs]
    /\ UNCHANGED <<mem, callvars, cmdvars, proc, output>>

\* `gvs = get_gvs()`, the loop that drops known addresses, and the sort by
\* file name
DedupGlobals ==
    /\ scan.pc = "dedup"
    /\ scan' = Deduped(scan, DropKnown(mem, proc.gvs, scan.unique_value_addrs, 1, 1))
    /\ UNCHANGED <<mem, callvars, cmdvars, proc, selected_thread, output>>

\* one iteration of `for (symbol, v) in sorted_gvs:`
TraverseGlobal ==
    /\ scan.pc = "globals"
    /\ scan.g <= Len(scan.sorted_gvs)
    /\ scan' = IF ~scan.sorted_gvs[scan.g].typed
               THEN [scan EXCEPT !.g = @ + 1]
               ELSE GlobalTraversed(scan, scan.sorted_gvs[scan.g],
                        heap_usage_value(mem, scan.sorted_gvs[scan.g].node,
                                         scan.blk_addrs))
    /\ UNCHANGED <<mem, callvars, cmdvars, proc, selected_thread, output>>

\* the ranked summary and the grand total
PrintSummary ==
    /\ scan.pc = "globals"
    /\ scan.g > Len(scan.sorted_gvs)
    /\ output' = Printed(Items(StableSort([i \in DOMAIN scan.all_results |->
                                              <<0 - scan.all_results[i].size,
                                                scan.all_results[i]>>])),
                         scan.total_bytes, scan.total_count)
    /\ scan' = [scan EXCEPT !.pc = "done"]
    /\ UNCHANGED <<mem, callvars, cmdvars, proc, selected_thread>>

NextScan ==
    \/ SwitchThread
    \/ WalkFrame
    \/ RestoreThread
    \/ DedupGlobals
    \/ TraverseGlobal
    \/ PrintSummary

SpecScan == InitScan /\ [][NextScan]_vars

-----------------------------------------------------------------------------
(* The ranked summary on long result lists.  Lines 461-470 read only       *)
(* all_results and the totals, so the scans that found up to               *)
(* _show_count + ExtraResults variables with heap memory are represented   *)
(* by their locals at the end of the loop over the globals.                *)

\* results beyond _show_count
ExtraResults == 2

ResultOrders == {"rising", "falling", "equal", "mixed"}

\* bytes of the i-th of n results
ResultSize(order, n, i) ==
    CASE order = "rising" -> 16 * i
      [] order = "falling" -> 16 * (n + 1 - i)
      [] order = "equal" -> 16
      [] OTHER -> 16 * (((7 * i) % 5) + 1)

ResultList(order, n) ==
    [i \in 1..n |-> [id |-> <<"thread", 1, i, "v">>,
                     size |-> ResultSize(order, n, i), count |-> (i % 3) + 1]]

RECURSIVE SumOf(_, _)
SumOf(rs, field) ==
    IF rs = <<>> THEN 0
    ELSE IF field = "size" THEN rs[1].size + SumOf(Tail(rs), field)
    ELSE rs[1].count + SumOf(Tail(rs), field)

InitSummary ==
    \E order \in ResultOrders, n \in 0..(_show_count + ExtraResults) :
        /\ mem = ScanMem(Null, Null, Null, Big(1), NoFault)
        /\ proc = [threads |-> Threads, orig |-> 1, gvs |-> <<>>,
                   fault |-> NoScanFault]
        /\ selected_thread = 1
        /\ scan = [ScanStart(1) EXCEPT
                     !.pc = "globals", !.g = 1, !.thread = NumThreads,
                     !.all_results = ResultList(order, n),
                     !.total_bytes = SumOf(ResultList(order, n), "size"),
                     !.total_count = SumOf(ResultList(order, n), "count")]
        /\ output = <<>>
        /\ input = NoInput
        /\ root = None
        /\ blk0 = {}
        /\ values = <<>>
        /\ unique_value_addrs = {}
        /\ blk_addrs = {}
        /\ size = 0
        /\ count = 0
        /\ pc = "idle"
        /\ trace = <<>>

SpecSummary == InitSummary /\ [][PrintSummary]_vars

-----------------------------------------------------------------------------
(* PrintTopVariableCommand.calc_input_vars and invoke: the argument is a   *)
(* list of expressions.  An expression is what gdb.parse_and_eval makes of *)
(* it (a value, or gdb.error when it does not resolve) and whether         *)
(* gdb.lookup_global_symbol finds a global of that name.                   *)

\* longest argument list
MaxExprs == 3

Expr(name, resolves, node, is_global) ==
    [name |-> name, resolves |-> resolves, node |-> node, is_global |-> is_global]

\* s: the struct variable R; a: a global pointer; b: a local pointer; *p: the
\* struct held in heap block 1; nosuch: no such symbol
Exprs == {Expr("s", TRUE, 1, FALSE), Expr("a", TRUE, 2, TRUE),
          Expr("b", TRUE, 3, FALSE), Expr("*p", TRUE, H(1), FALSE),
          Expr("nosuch", FALSE, None, FALSE)}

RECURSIVE Lists(_, _)
Lists(S, n) ==
    IF n = 0 THEN {<<>>}
    ELSE Lists(S, n - 1)
         \cup {Append(l, x) : l \in {y \in Lists(S, n - 1) : Len(y) = n - 1}, x \in S}

InputMems ==
    {GenericMem("struct", c1, c2, [i \in Blocks |-> IF i = 1 THEN Big(NextBlock(1))
                                                    ELSE Null], None, flt) :
        c1 \in {Null, Big(1)}, c2 \in {Null, Big(1), Small(1)},
        flt \in {NoFault, <<3, "heap_block">>}}

InputInputs == {[mem |-> m, tokens |-> l] : m \in InputMems, l \in Lists(Exprs, MaxExprs)}

\* a printed line
Line(kind, k, name, sz, cnt) ==
    [id |-> <<kind, k, 0, name>>, size |-> sz, count |-> cnt]

\* the truth value of a gdb.Value: a pointer or an integer is true when it
\* is not zero, every other value is true
Truth(m, v) ==
    IF v = None THEN FALSE
    ELSE IF m.node[v].kind \in {"ptr", "prim"} THEN m.node[v].pval # 0
    ELSE TRUE

\* mutant of NewSet: the set of the previous expression is kept
NewSet_Kept(old) == old

\* `blk_addrs = set()`
NewSet(old) == {}

\* lines 301-309: what is printed while a value that counts as false is
\* looked up as a global symbol
Lookup(m, e, k) ==
    IF e.is_global
    THEN IF Truth(m, e.node) THEN <<>>
         ELSE <<Line("symbol2value failed", k, e.name, 0, 0)>>
    ELSE <<Line("lookup_global_symbol failed", k, e.name, 0, 0)>>

\* lines 311-316: the call for expression e ended as r
Analysed(e, k, r) ==
    IF r.raised
    THEN [lines |-> <<>>, raised |-> TRUE, blk_addrs |-> r.blk_addrs]
    ELSE [lines |-> <<Line("expr", k, e.name, r.size, r.count)>>,
          raised |-> FALSE, blk_addrs |-> r.blk_addrs]

\* the body of `for expr in tokens:` for the k-th expression e
ExprStep(m, e, k, blks) ==
    IF ~e.resolves
    THEN [lines |-> <<>>, raised |-> TRUE, blk_addrs |-> blks]
    ELSE IF Truth(m, e.node)
    THEN Analysed(e, k, heap_usage_value(m, e.node, NewSet(blks)))
    ELSE [lines |-> Lookup(m, e, k)
                    \o <<Line("parse_and_eval failed", k, e.name, 0, 0)>>,
          raised |-> FALSE, blk_addrs |-> blks]

\* the locals after the step st; an exception leaves calc_input_vars
AfterExpr(inp, st) ==
    [inp EXCEPT !.k = IF st.raised THEN @ ELSE @ + 1,
                !.blk_addrs = st.blk_addrs,
                !.pc = IF st.raised THEN "raised" ELSE @]

InitInput ==
    \E inp \in InputInputs :
        /\ mem = inp.mem
        /\ input = [pc |-> "split", tokens |-> inp.tokens, k |-> 1, blk_addrs |-> {}]
        /\ output = <<>>
        /\ proc = NoProc
        /\ selected_thread = None
        /\ scan = NoScan
        /\ root = None
        /\ blk0 = {}
        /\ values = <<>>
        /\ unique_value_addrs = {}
        /\ blk_addrs = {}
        /\ size = 0
        /\ count = 0
        /\ pc = "idle"
        /\ trace = <<>>

\* `tokens = argument.split()`; an argument of blanks only is invalid
SplitArgument ==
    /\ input.pc = "split"
    /\ IF input.tokens = <<>>
       THEN /\ output' = Append(output, Line("Invalid argument", 0, "", 0, 0))
            /\ input' = [input EXCEPT !.pc = "done"]
       ELSE /\ input' = [input EXCEPT !.pc = "exprs"]
            /\ UNCHANGED output
    /\ UNCHANGED <<mem, callvars, proc, selected_thread, scan>>

\* one iteration of `for expr in tokens:`
EvalExpr ==
    /\ input.pc = "exprs"
    /\ input.k <= Len(input.tokens)
    /\ input' = AfterExpr(input, ExprStep(mem, input.tokens[input.k], input.k,
                                          input.blk_addrs))
    /\ output' = output \o ExprStep(mem, input.tokens[input.k], input.k,
                                    input.blk_addrs).lines
    /\ UNCHANGED <<mem, callvars, proc, selected_thread, scan>>

\* the list is exhausted: calc_input_vars returns
EndInput ==
    /\ input.pc = "exprs"
    /\ input.k > Len(input.tokens)
    /\ input' = [input EXCEPT !.pc = "done"]
    /\ UNCHANGED <<mem, callvars, scanvars>>

\* invoke: `except Exception as e: print("Exception: " + str(e))`
CatchInvoke ==
    /\ input.pc = "raised"
    /\ input' = [input EXCEPT !.pc = "aborted"]
    /\ output' = Append(output, Line("Exception", input.k,
                                     input.tokens[input.k].name, 0, 0))
    /\ UNCHANGED <<mem, callvars, proc, selected_thread, scan>>

NextInput ==
    \/ SplitArgument
    \/ EvalExpr
    \/ EndInput
    \/ CatchInvoke

SpecInput == InitInput /\ [][NextInput]_vars

-----------------------------------------------------------------------------
(* Helpers of the properties.                                              *)

Range(f) == {f[i] : i \in DOMAIN f}

\* the in-use heap block with base address a
BlockOf(m, a) == CHOOSE b \in DOMAIN m.blk : m.blk[b].address = a

RECURSIVE SumSizes(_, _)
SumSizes(m, S) ==
    IF S = {} THEN 0
    ELSE LET a == CHOOSE x \in S : TRUE
         IN  m.blk[BlockOf(m, a)].size + SumSizes(m, S \ {a})

FaultFree == \A n \in DOMAIN mem.node : mem.node[n].fault = "none"

\* iterations in which a pointer was processed and the oracle answered
PtrEvents == {i \in DOMAIN trace : trace[i].ev = "ptr" /\ ~(trace[i].hit = None /\ trace[i].raised)}

\* iterations in which a processed pointer hit an in-use block
HitEvents ==
    {i \in PtrEvents : trace[i].hit # None /\ mem.blk[trace[i].hit].inuse}

\* base addresses of the in-use blocks hit by a processed pointer
HitBlocks == {mem.blk[trace[i].hit].address : i \in HitEvents}

-----------------------------------------------------------------------------
(* C1: a call counts each heap block at most once: on return, size is the  *)
(* sum of the sizes, and count the number, of the distinct in-use blocks   *)
(* that a processed pointer hit and that were not in blk_addrs on entry.   *)
C1_NoDoubleCounting ==
    pc = "returned" =>
        /\ size = SumSizes(mem, HitBlocks \ blk0)
        /\ count = Cardinality(HitBlocks \ blk0)

\* a call has returned in which two pointers hit the same block, which was
\* billed once, and a third pointer hit no in-use block
C1_Witness ==
    /\ pc = "returned"
    /\ count = 1
    /\ \E i, j \in HitEvents : i # j /\ trace[i].hit = trace[j].hit
    /\ PtrEvents \ HitEvents # {}

-----------------------------------------------------------------------------
(* Heap blocks reachable from a value by following pointers transitively.  *)

\* the values one step away: a pointee of at least 8 bytes, an array
\* element, a struct field of at least 8 bytes
Children(m, n) ==
    LET nd == m.node[n]
    IN  CASE nd.kind = "ptr" ->
               IF nd.tsize >= MinExpandSize /\ nd.pointee # None
               THEN {nd.pointee} ELSE {}
          [] nd.kind = "array" -> {nd.kids[i].node : i \in DOMAIN nd.kids}
          [] nd.kind = "struct" ->
               {nd.kids[i].node : i \in {k \in DOMAIN nd.kids :
                                            nd.kids[k].msize >= MinExpandSize}}
          [] OTHER -> {}

RECURSIVE Closure(_, _)
Closure(m, S) ==
    LET T == S \cup UNION {Children(m, n) : n \in S}
    IN  IF T = S THEN S ELSE Closure(m, T)

\* base addresses of the in-use blocks a reachable pointer points into
ReachableBlocks(m, r) ==
    {m.blk[heap_block(m, m.node[n].pval)].address :
        n \in {x \in Closure(m, {r}) :
                  /\ m.node[x].kind = "ptr"
                  /\ heap_block(m, m.node[x].pval) # None
                  /\ m.blk[heap_block(m, m.node[x].pval)].inuse}}

(* C2: called with an empty block set, heap_usage_value returns the sum of *)
(* the sizes of all in-use heap blocks reachable by following pointers     *)
(* transitively from the root, also through pointees in non-heap memory.   *)
C2_ReachableBytes ==
    (pc = "returned" /\ blk0 = {}) =>
        size = SumSizes(mem, ReachableBlocks(mem, root))

-----------------------------------------------------------------------------
(* Termination of the work-list loop.                                      *)

\* a bound on the iterations of a call: a value is processed again only
\* after a newly counted block pushed it
IterationBound == (Len(mem.blk) + 1) * Len(mem.node)

\* the calls on a fresh block set in which no host query fails
InitLive ==
    /\ Init
    /\ FaultFree
    /\ blk0 = {}

\* the loop is sequential code: an iteration that can run does run
SpecLive == InitLive /\ [][Next]_vars /\ WF_vars(Next)

(* C3: the work-list loop terminates on every value graph, cyclic and      *)
(* first-member-aliasing ones included: when no host query fails, a call   *)
(* never runs more iterations than (blocks + 1) * values, and it returns   *)
(* with an empty work stack.                                               *)
C3_Terminates ==
    /\ [](Len(trace) <= IterationBound)
    /\ <>(pc = "returned" /\ values = <<>>)

\* a call has returned after it removed a container's address from the
\* visited set and after it met a pointer back to a struct it had expanded
C3_Witness ==
    /\ pc = "returned"
    /\ values = <<>>
    /\ \E i \in DOMAIN trace : trace[i].undo
    /\ \E i, j \in DOMAIN trace :
           /\ i < j
           /\ trace[i].ev = "struct"
           /\ trace[j].ev = "ptr"
           /\ mem.node[trace[j].node].pointee = trace[i].node

-----------------------------------------------------------------------------
(* Traversal order.                                                        *)

\* the totals of every run of the loop that may take any pending item
RECURSIVE Outcomes(_, _)
Outcomes(m, st) ==
    IF st.values = <<>> THEN {<<st.size, st.count>>}
    ELSE UNION {Outcomes(m, HStepAt(m, st, k)) : k \in DOMAIN st.values}

(* C4: the returned totals are the same for every order in which the       *)
(* pending work-list items are popped.                                     *)
C4_OrderIndependent ==
    (pc = "returned" /\ FaultFree) =>
        Outcomes(mem, Enter(root, blk0)) = {<<size, count>>}

-----------------------------------------------------------------------------
(* C5: a first member or element that shares its container's address is    *)
(* still expanded: after the container was processed and pushed it, a      *)
(* later iteration processes it instead of skipping it as visited.         *)
C5_FirstMemberExpanded ==
    pc = "returned" =>
        \A i \in DOMAIN trace :
            \A c \in Range(trace[i].push) :
                (trace[i].undo /\ mem.node[c].addr = mem.node[trace[i].node].addr)
                => \E j \in DOMAIN trace :
                       /\ j > i
                       /\ trace[j].node = c
                       /\ trace[j].ev \notin {"skip_none", "skip_seen"}

-----------------------------------------------------------------------------
(* The 8-byte expansion threshold.                                         *)

\* how often the block with index b has been billed, the caller's set included
TimesCounted(b) ==
    Cardinality({j \in DOMAIN trace : trace[j].counted /\ trace[j].hit = b})
    + (IF mem.blk[b].address \in blk0 THEN 1 ELSE 0)

(* C6: the pointee of a pointer whose target type is below 8 bytes is      *)
(* never pushed, a struct field whose type is below 8 bytes is never       *)
(* pushed, and the in-use block a small-target pointer points into is      *)
(* counted exactly once.                                                   *)
C6_SizeThreshold ==
    \A i \in DOMAIN trace :
        /\ (i \in PtrEvents /\ mem.node[trace[i].node].tsize < MinExpandSize)
           => /\ trace[i].push = <<>>
              /\ i \in HitEvents
                 => /\ mem.blk[trace[i].hit].address \in blk_addrs
                    /\ TimesCounted(trace[i].hit) = 1
        /\ trace[i].ev = "struct"
           => \A k \in DOMAIN mem.node[trace[i].node].kids :
                  mem.node[trace[i].node].kids[k].msize < MinExpandSize
                  => mem.node[trace[i].node].kids[k].node \notin Range(trace[i].push)

\* a small-target pointer has hit an in-use block, and a struct with a
\* field of an expandable kind below 8 bytes has been expanded
C6_Witness ==
    /\ \E i \in HitEvents : mem.node[trace[i].node].tsize < MinExpandSize
    /\ \E i \in DOMAIN trace :
           /\ trace[i].ev = "struct"
           /\ ~trace[i].raised
           /\ \E k \in DOMAIN mem.node[trace[i].node].kids :
                  /\ mem.node[trace[i].node].kids[k].msize < MinExpandSize
                  /\ mem.node[trace[i].node].kids[k].mcode \in ExpandKinds

-----------------------------------------------------------------------------
(* C9: a host-query failure on one node only stops the expansion of that   *)
(* node: the loop goes on with the remaining work-list items.              *)
C9_FailureContained ==
    [][(pc = "loop" /\ values # <<>> /\ Visit(mem, LoopState).raised)
       => (pc' = "loop" /\ values' = Remaining(values, PopIndex(values)))]_vars

-----------------------------------------------------------------------------
(* The whole-process scan.                                                 *)

\* the globals named by a result line of the scan
GlobalsOf(r) ==
    {k \in DOMAIN proc.gvs : r.id[1] = "global" /\ proc.gvs[k].name = r.id[4]}

(* C7: a global or static variable whose address was traversed as a stack  *)
(* variable's address earlier in the scan adds nothing to the results: no  *)
(* result line, and so no part of the grand total, belongs to such a       *)
(* global.                                                                 *)
C7_GlobalAfterStack ==
    \A i \in DOMAIN scan.all_results :
        \A k \in GlobalsOf(scan.all_results[i]) :
            mem.node[proc.gvs[k].node].addr \notin scan.stack_addrs

(* C8: the thread that was selected before the scan is selected again      *)
(* after it, however the scan ends: by completing or by an exception.      *)
C8_ThreadRestored ==
    scan.pc \in {"done", "aborted"} => selected_thread = proc.orig

(* C10: an exception raised while one root is analysed never aborts the    *)
(* scan: no exception leaves calc_all_vars before the summary is printed.  *)
C10_ScanNeverAborts == scan.pc # "aborted"

-----------------------------------------------------------------------------
(* Single-expression mode.                                                 *)

\* the lines printed for the k-th expression
LinesOf(k) == {i \in DOMAIN output : output[i].id[2] = k}

(* C11: when one expression of the list fails to resolve or to evaluate,   *)
(* the failure is reported and the remaining expressions are still         *)
(* analysed: once the command has ended, every expression of the list has  *)
(* a line of its own, its result or the report of its failure.             *)
C11_RemainingAnalysed ==
    input.pc \in {"done", "aborted"} =>
        \A k \in DOMAIN input.tokens :
            \E i \in LinesOf(k) :
                output[i].id[1] \in {"expr", "parse_and_eval failed", "Exception"}

(* C12: every expression of the list is analysed with a fresh block set:   *)
(* the totals printed for it are those of an independent call on its value *)
(* with an empty set, whatever expressions precede it, and the same        *)
(* expression listed twice gets the same totals twice.                     *)
C12_FreshSetPerExpr ==
    \A i \in DOMAIN output :
        output[i].id[1] = "expr" =>
            /\ output[i].size =
                   heap_usage_value(mem, input.tokens[output[i].id[2]].node, {}).size
            /\ output[i].count =
                   heap_usage_value(mem, input.tokens[output[i].id[2]].node, {}).count

\* the command has ended after it printed non-zero totals for the same
\* expression twice and for a third expression that reaches the same blocks
C12_Witness ==
    /\ input.pc = "done"
    /\ \E i, j, l \in DOMAIN output :
           /\ i < j /\ j < l
           /\ output[i].id[1] = "expr" /\ output[j].id[1] = "expr"
           /\ output[l].id[1] = "expr"
           /\ output[i].id[4] = output[j].id[4]
           /\ output[l].id[4] # output[i].id[4]
           /\ output[i].size > 0 /\ output[j].size > 0 /\ output[l].size > 0

-----------------------------------------------------------------------------
(* The ranked summary.                                                     *)

\* the result lines of the summary: all lines but the grand total
Shown == SubSeq(output, 1, Len(output) - 1)

(* C13: the summary prints the top _show_count entries: exactly            *)
(* min(_show_count, number of results) result lines, in non-increasing     *)
(* order of bytes, and no result left out has more bytes than a printed    *)
(* one.                                                                    *)
C13_TopN ==
    scan.pc = "done" =>
        /\ Len(Shown) = IF Len(scan.all_results) < _show_count
                        THEN Len(scan.all_results) ELSE _show_count
        /\ \A i, j \in DOMAIN Shown : i < j => Shown[i].size >= Shown[j].size
        /\ \A r \in Range(scan.all_results) \ Range(Shown) :
               \A i \in DOMAIN Shown : r.size <= Shown[i].size

-----------------------------------------------------------------------------
(* The totals of the whole-process scan.                                   *)

(* C14: at the end of a scan every block of the shared block set has been  *)
(* added to the grand total exactly once, also when the traversal of a     *)
(* root raised part-way: total bytes is the sum of the sizes of the blocks *)
(* in the set and total count their number.                                *)
C14_TotalsMatchBlocks ==
    scan.pc = "done" =>
        /\ scan.total_bytes = SumSizes(mem, scan.blk_addrs)
        /\ scan.total_count = Cardinality(scan.blk_addrs)

-----------------------------------------------------------------------------
(* The visited-address set.                                                *)

\* iterations that added the address of their value to unique_value_addrs
\* and went on to the value's type
AddrEvents ==
    {i \in DOMAIN trace : /\ trace[i].ev \notin {"skip_none", "skip_seen"}
                          /\ mem.node[trace[i].node].addr # None}

(* C15: within one call a value address enters the visited-address set at  *)
(* most once and no address is expanded twice, first members and elements  *)
(* that share their container's address included.                          *)
C15_AddressOnce ==
    \A i, j \in AddrEvents :
        i < j => mem.node[trace[i].node].addr # mem.node[trace[j].node].addr

-----------------------------------------------------------------------------
(* The roots of the whole-process scan.                                    *)

\* the address of the k-th global left in the list
GvAddr(k) == mem.node[scan.gvs[k].node].addr

(* C16: after the de-duplication pass no global left in the list has the   *)
(* address of a stack variable traversed before or of an earlier global of *)
(* the list, so that no root address is traversed twice in a scan.         *)
C16_GlobalsDeduplicated ==
    scan.pc \in {"globals", "done"} =>
        \A k \in DOMAIN scan.gvs :
            /\ GvAddr(k) \notin scan.stack_addrs
            /\ \A j \in DOMAIN scan.gvs : j < k => GvAddr(j) # GvAddr(k)

\* the values heap_usage_value was called on, and their addresses
Called == Range(scan.calls)
CalledAddrs == {mem.node[v].addr : v \in Called} \ {None}

\* the variables with a type name and a value in the non-global blocks of
\* frame f of thread t
FrameVariables(t, f) ==
    {sym \in Range(FrameSymbols(proc.threads[t].frames[f].blocks)) :
        sym.is_variable /\ sym.typed /\ sym.node # None}

(* C17: in a scan in which no host query fails, every variable in every    *)
(* non-global block of every frame of every thread is passed to            *)
(* heap_usage_value unless its address was traversed already; this holds   *)
(* for an outer-block variable named like an inner-block one as well.      *)
C17_EveryStackVariable ==
    (scan.pc \in {"dedup", "globals", "done"}
     /\ FaultFree /\ proc.fault = NoScanFault) =>
        \A t \in DOMAIN proc.threads :
            \A f \in DOMAIN proc.threads[t].frames :
                \A sym \in FrameVariables(t, f) :
                    \/ sym.node \in Called
                    \/ mem.node[sym.node].addr \in CalledAddrs

-----------------------------------------------------------------------------
(* The visited-address set across the roots of a scan.                     *)

\* the addresses that enter unique_value_addrs while the loop runs on from
\* loop state st
RECURSIVE Entered(_, _)
Entered(m, st) ==
    IF st.pc # "loop" \/ st.values = <<>> THEN {}
    ELSE (IF /\ Visit(m, st).ev \notin {"skip_none", "skip_seen"}
             /\ m.node[Visit(m, st).node].addr # None
          THEN {m.node[Visit(m, st).node].addr} ELSE {})
         \cup Entered(m, HStep(m, st))

\* the addresses expanded by the i-th heap_usage_value call of the scan
EnteredByCall(i) == Entered(mem, Enter(scan.calls[i], scan.blks_before[i]))

(* C18: in a whole-process scan the visited-address set is shared across   *)
(* the roots: an address expanded during the traversal of one root is      *)
(* skipped when a later root of the scan reaches it again.                 *)
C18_AddressesSharedAcrossRoots ==
    \A i, j \in DOMAIN scan.calls :
        i < j => EnteredByCall(i) \cap EnteredByCall(j) = {}

-----------------------------------------------------------------------------
(* The pointer branch: following the pointee.                              *)

\* the pointer iterations that ended without an exception on a pointer that
\* has a pointee to dereference and a target type of MinExpandSize or more
WidePtrEvents ==
    {i \in DOMAIN trace :
        /\ trace[i].ev = "ptr"
        /\ ~trace[i].raised
        /\ mem.node[trace[i].node].pointee # None
        /\ mem.node[trace[i].node].tsize >= MinExpandSize}

(* C19: whenever heap_usage_value processes a pointer whose target type is *)
(* at least 8 bytes it pushes the dereferenced pointee, whether or not the *)
(* heap oracle found a live block that was not yet counted.                *)
C19_PointeePushed ==
    \A i \in WidePtrEvents :
        trace[i].push = <<mem.node[trace[i].node].pointee>>

-----------------------------------------------------------------------------
(* Unions.                                                                 *)

\* the iterations that took a union with an address not yet visited
UnionEvents ==
    {i \in DOMAIN trace :
        /\ trace[i].node # None
        /\ mem.node[trace[i].node].kind = "union"
        /\ trace[i].ev \notin {"skip_none", "skip_seen"}
        /\ ~trace[i].raised}

\* what the struct branch pushes for node n
StructPush(m, n) == VisitStruct(m, n, m.node[n].addr).push

(* C20: a value whose basic type is a union is expanded like a struct:     *)
(* heap_usage_value pushes every accessible field of the union that is at  *)
(* least 8 bytes and of an expandable kind, so that heap blocks reachable  *)
(* through a union member are counted.                                     *)
C20_UnionExpanded ==
    \A i \in UnionEvents :
        trace[i].push = StructPush(mem, trace[i].node)

-----------------------------------------------------------------------------
(* Dereferences and counted blocks.                                        *)

\* the iterations that dereferenced their pointer: `value.referenced_value()`
\* at line 197 returned a pointee that was pushed, or raised
DerefEvents ==
    {i \in DOMAIN trace :
        /\ trace[i].ev = "ptr"
        /\ \/ trace[i].push # <<>>
           \/ trace[i].raised /\ trace[i].hit # None}

\* the iterations that added a block to blk_addrs
CountedEvents == {i \in DOMAIN trace : trace[i].counted}

(* C21: over the lifetime of one visited-block set, heap_usage_value       *)
(* dereferences a pointer only in the very step in which that pointer's    *)
(* block is newly added to blk_addrs: the block is live and was in the set *)
(* neither on entry nor after an earlier step; hence at most one pointee   *)
(* is followed per heap block, the dereferences never outnumber the blocks *)
(* counted, and a pointer into non-heap memory, a free block or a block    *)
(* already counted is never followed.                                      *)
C21_PointeeOnlyWithNewBlock ==
    /\ \A i \in DerefEvents :
           /\ trace[i].counted
           /\ trace[i].hit # None
           /\ mem.blk[trace[i].hit].inuse
           /\ mem.blk[trace[i].hit].address \notin blk0
           /\ \A j \in CountedEvents : j < i => trace[j].hit # trace[i].hit
    /\ \A i, j \in DerefEvents : i # j => trace[i].hit # trace[j].hit
    /\ Cardinality(DerefEvents) <= count
    /\ Cardinality(DerefEvents) <= Cardinality(blk_addrs \ blk0)

\* a returned call that followed one pointer into a block, left a second
\* wide pointer into the same block alone, and left a wide pointer into
\* non-heap memory alone
C21_Witness ==
    /\ pc = "returned"
    /\ \E i \in DerefEvents : \E j \in WidePtrEvents :
           /\ i < j
           /\ trace[j].hit = trace[i].hit
           /\ trace[j].push = <<>>
    /\ \E k \in WidePtrEvents : trace[k].hit = None /\ trace[k].push = <<>>

====
